---------------------------- MODULE Spec2Model ----------------------------
(***************************************************************************)
(* ProxyObserver (src/index.js with src/utils.js and src/patch.js): the    *)
(* identity registry, the notification hub and the Proxy traps, over a     *)
(* small heap of plain objects.                                            *)
(*                                                                         *)
(* JavaScript runs every call to completion on one thread, so each public  *)
(* operation (observe, get, is, subscribe, unsubscribe, an assignment, a   *)
(* definition or a deletion through a reference) is one action.            *)
(***************************************************************************)
EXTENDS Integers, Sequences, FiniteSets, TLC

\* Bound of the model: the primitive values are 1..MaxPrim.
MaxPrim == 2

\* The objects the program has created, the subscriber functions it has
\* defined and the property keys it uses.
Ids  == {1, 2}
Subs == {"f"}
Keys == {"a"}
\* Bound of the model: an array has at most MaxLen elements.
MaxLen == 2

\* The arrays the program has created
ArrayIds == {3}
IsArray(i) == i \in ArrayIds

\* An array index as a property key, and back
IndexKey(n) == ToString(n)
IndexKeys == {IndexKey(n) : n \in 0..MaxLen}
KeyIndex(key) == CHOOSE n \in 0..MaxLen : IndexKey(n) = key

\* for..in order of the own string keys of an object: the integer keys in
\* ascending order, then the others in creation order
KeyOrder == [n \in 1..(MaxLen + 1) |-> IndexKey(n - 1)] \o <<"length", "a">>

----------------------------------------------------------------------------
\* JavaScript values: undefined, primitives, objects (by identity) and the
\* Proxy built over an object (a distinct identity).
Undefined == [t |-> "undefined", n |-> 0]
Prim(n)   == [t |-> "prim", n |-> n]
Raw(i)    == [t |-> "object", n |-> i]
Prx(i)    == [t |-> "proxy", n |-> i]
\* The ProxyObserver instance hubs[h], as a value
Hub(h)    == [t |-> "observer", n |-> h]

Prims   == {Prim(n) : n \in 1..MaxPrim}
RawRefs == {Raw(i) : i \in Ids}
PrxRefs == {Prx(i) : i \in Ids}

\* Object.prototype.hasOwnProperty.call(target, key)
hasOwn(props, i, key) == key \in DOMAIN props[i]

\* typeof value === 'object' && value !== null
isObservable(value) == value.t \in {"object", "proxy"}

\* The hash-collections the program has created, and their classes
CollectionIds == {4, 5, 6}
KindOf(i) ==
  IF i \in {4, 5} THEN "Set" ELSE IF i = 6 THEN "Map" ELSE "Object"

\* value instanceof Map || value instanceof Set (a Proxy answers instanceof
\* as its target does)
isMapOrSet(value) ==
  value.t \in {"object", "proxy"} /\ KindOf(value.n) \in {"Map", "Set"}

\* value instanceof WeakMap || value instanceof WeakSet
isWeakMapOrSet(value) ==
  value.t \in {"object", "proxy"} /\ KindOf(value.n) \in {"WeakMap", "WeakSet"}

\* descriptor[f] as a condition: an absent attribute is undefined, so falsy
Truthy(descriptor, f) == f \in DOMAIN descriptor /\ descriptor[f] = TRUE

\* options.ignore(value), for the predicates a program passes as ignore:
\* value => true, value => false, and value => value is not a plain object
Ignored(predicate, value) ==
  \/ predicate = "all"
  \/ predicate = "native" /\ KindOf(value.n) # "Object"

\* isDescriptorObservable(descriptor, options): "true", "false", or "throw"
\* for the TypeError of reading a property of undefined (options.patch) or
\* of calling undefined (options.ignore).
isDescriptorObservable(descriptor, options) ==
  IF "get" \in DOMAIN descriptor \/ "set" \in DOMAIN descriptor THEN "false"
  ELSE IF ~("value" \in DOMAIN descriptor /\ isObservable(descriptor.value))
    THEN "false"
  ELSE IF options = Undefined THEN "throw"
  ELSE IF options.patch
          /\ (isMapOrSet(descriptor.value) \/ isWeakMapOrSet(descriptor.value))
    THEN (IF Truthy(descriptor, "configurable") \/ Truthy(descriptor, "writable")
          THEN "true" ELSE "false")
  ELSE IF "ignore" \notin DOMAIN options THEN "throw"
  ELSE IF Ignored(options.ignore, descriptor.value) THEN "false"
  ELSE IF Truthy(descriptor, "configurable") \/ Truthy(descriptor, "writable")
    THEN "true" ELSE "false"


----------------------------------------------------------------------------
\* The program's state.
\*   props     : the heap; props[i] maps each own key of object i to its
\*               data property descriptor
\*   observers : __observers__, the WeakMap from a value to its ProxyObserver
\*   hubs      : the ProxyObserver instances in creation order, each with the
\*               _handler its notify closure relays to (0 is noop) and, as a
\*               history field, the containers nested in its target when a
\*               deep observe call created it
\*   proxies   : the Proxy built over object i, with the variables its traps
\*               close over
\*   entries   : the contents of each Map and Set in insertion order; an
\*               element of a Set is an entry whose key and value are equal
\*   last      : the operation performed last: what it was called on, its
\*               result, the subscriber calls it made and whether it hung
\*               in a dispatch pass that does not end
VARIABLES props, observers, hubs, proxies, entries, last

vars == <<props, observers, hubs, proxies, entries, last>>

\* static get observeOptions ()
observeOptions == [deep |-> TRUE, patch |-> FALSE]

\* Object.assign({}, ProxyObserver.observeOptions, options)
MergeOptions(options) ==
  [f \in DOMAIN observeOptions \cup DOMAIN options |->
     IF f \in DOMAIN options THEN options[f] ELSE observeOptions[f]]

\* target[key] on an ordinary object whose prototype chain holds none of Keys
GetValue(p, i, key) == IF key \in DOMAIN p[i] THEN p[i][key].value ELSE Undefined

\* descriptor.value, undefined when the descriptor has no value field
DescValue(descriptor) ==
  IF "value" \in DOMAIN descriptor THEN descriptor.value ELSE Undefined

\* [[DefineOwnProperty]] of an ordinary extensible object
\* (ValidateAndApplyPropertyDescriptor): [ok, props]
OrdinaryDefineOwnProperty(p, i, key, descriptor) ==
  IF key \notin DOMAIN p[i]
  THEN [ok |-> TRUE,
        props |-> [p EXCEPT ![i] = (key :> [value |-> DescValue(descriptor),
                                            writable |-> Truthy(descriptor, "writable"),
                                            enumerable |-> Truthy(descriptor, "enumerable"),
                                            configurable |-> Truthy(descriptor, "configurable")])
                                   @@ p[i]]]
  ELSE LET cur == p[i][key]
           refused ==
             /\ ~cur.configurable
             /\ \/ Truthy(descriptor, "configurable")
                \/ "enumerable" \in DOMAIN descriptor
                     /\ descriptor.enumerable # cur.enumerable
                \/ /\ ~cur.writable
                   /\ \/ Truthy(descriptor, "writable")
                      \/ "value" \in DOMAIN descriptor
                           /\ descriptor.value # cur.value
           new == [f \in DOMAIN cur |->
                     IF f \in DOMAIN descriptor THEN descriptor[f] ELSE cur[f]]
       IN  IF refused THEN [ok |-> FALSE, props |-> p]
           ELSE [ok |-> TRUE, props |-> [p EXCEPT ![i] = (key :> new) @@ p[i]]]

\* [[DefineOwnProperty]] of an array: defining an index at or beyond length
\* moves length past it, and defining a smaller length deletes the elements
\* from the end down to it, stopping at one that is not configurable.
ArrayDefineOwnProperty(p, i, key, descriptor) ==
  LET len == p[i]["length"].value.n
      lengthWritable == p[i]["length"].writable
      refusal == [ok |-> FALSE, props |-> p]
  IN  IF key = "length" /\ "value" \in DOMAIN descriptor
             /\ descriptor.value.n < len
      THEN
        IF ~lengthWritable THEN refusal
        ELSE
          LET newLen == descriptor.value.n
              stuck == {n \in newLen..(len - 1) :
                          IndexKey(n) \in DOMAIN p[i]
                            /\ ~p[i][IndexKey(n)].configurable}
              stop == IF stuck = {} THEN newLen
                      ELSE 1 + CHOOSE n \in stuck : \A m \in stuck : m <= n
              gone == {IndexKey(n) : n \in stop..(len - 1)}
              cut == [p EXCEPT ![i] = [k \in DOMAIN p[i] \ gone |-> p[i][k]]]
              applied == OrdinaryDefineOwnProperty(cut, i, "length",
                           [descriptor EXCEPT !.value = Prim(stop)])
          IN  [ok |-> applied.ok /\ stuck = {}, props |-> applied.props]
      ELSE IF key \in IndexKeys /\ KeyIndex(key) >= len
      THEN
        IF ~lengthWritable THEN refusal
        ELSE
          LET defined == OrdinaryDefineOwnProperty(p, i, key, descriptor)
          IN  IF ~defined.ok THEN refusal
              ELSE [ok |-> TRUE,
                    props |-> [defined.props EXCEPT
                                 ![i]["length"].value = Prim(KeyIndex(key) + 1)]]
      ELSE OrdinaryDefineOwnProperty(p, i, key, descriptor)

\* Reflect.defineProperty(target, key, descriptor): [ok, props]
ReflectDefineProperty(p, i, key, descriptor) ==
  IF IsArray(i) THEN ArrayDefineOwnProperty(p, i, key, descriptor)
  ELSE OrdinaryDefineOwnProperty(p, i, key, descriptor)

\* Reflect.deleteProperty(target, key) on an ordinary object: [ok, props]
ReflectDeleteProperty(p, i, key) ==
  IF key \notin DOMAIN p[i] THEN [ok |-> TRUE, props |-> p]
  ELSE IF ~p[i][key].configurable THEN [ok |-> FALSE, props |-> p]
  ELSE [ok |-> TRUE,
        props |-> [p EXCEPT ![i] = [k \in DOMAIN p[i] \ {key} |-> p[i][k]]]]

----------------------------------------------------------------------------
\* The operations below run inside one call: they take the program state s
\* (props, observers, hubs, proxies and the subscriber calls made so far) and
\* return it updated, with the call's result.

\* A registry that knows targets only and misses the proxies built over them
is_TargetsOnly(obs, value) == value.t = "object" /\ value \in DOMAIN obs

\* static is (value)
is(obs, value) == isObservable(value) /\ value \in DOMAIN obs

\* The subscriber functions whose body throws
Throwing == {"boom"}

\* Bound of the model: a pass of forEach that visits one subscriber more
\* than MaxVisits times with one change is cut there, as a pass that does
\* not end.
MaxVisits == 2

\* The place in a Set's entry list of an entry that was deleted while a
\* forEach was running: the list keeps it, empty
Removed == ""

\* A subscribe that keeps a list: a function subscribed twice is in it twice
subscribe_Twice(subscribers, f) == Append(subscribers, f)

\* this.subscribers.add(subscriber): a Set keeps insertion order and holds
\* a function once
subscribe(subscribers, f) ==
  IF \E n \in 1..Len(subscribers) : subscribers[n] = f THEN subscribers
  ELSE Append(subscribers, f)

\* An unsubscribe that removes the function subscribed first
unsubscribe_Oldest(subscribers, f) ==
  IF subscribers = <<>> THEN subscribers ELSE Tail(subscribers)

\* this.subscribers.delete(subscriber): the entry list of a Set keeps the
\* place of a deleted entry, empty, for a forEach that may be going through it
unsubscribe(subscribers, f) ==
  [n \in 1..Len(subscribers) |->
     IF subscribers[n] = f THEN Removed ELSE subscribers[n]]

\* The entry lists once no forEach is running: the empty places are gone
Compact(hs) ==
  [h \in DOMAIN hs |->
     [hs[h] EXCEPT !.subscribers = SelectSeq(@, LAMBDA f : f # Removed)]]

\* The change object as a subscriber finds it: a subscriber called earlier
\* may have written to it
Seen(s, change) ==
  IF change \in s.tampered THEN [change EXCEPT !.type = "tampered"] ELSE change

RECURSIVE SetValue(_, _, _, _)

\* The body of the subscriber f of hub h, called with (change, target):
\*   boom   : throw new Error()
\*   again  : observer.unsubscribe(again); observer.subscribe(again)
\*   quit   : observer.unsubscribe(quit)
\*   adder  : observer.subscribe(g)
\*   tamper : change.type = 'tampered'
\*   writer : if (change.value === 1) proxy[change.key] = 2
\*   others : record the call
Body(s, h, f, change) ==
  IF f \in Throwing THEN [s EXCEPT !.raised = TRUE]
  ELSE IF f = "again"
    THEN [s EXCEPT !.hubs[h].subscribers = subscribe(unsubscribe(@, f), f)]
  ELSE IF f = "quit"
    THEN [s EXCEPT !.hubs[h].subscribers = unsubscribe(@, f)]
  ELSE IF f = "adder"
    THEN [s EXCEPT !.hubs[h].subscribers = subscribe(@, "g")]
  ELSE IF f = "tamper"
    THEN [s EXCEPT !.tampered = @ \cup {change}]
  ELSE IF f = "writer"
    THEN (IF /\ change.type \in {"add", "set"}
             /\ change.value = [t |-> "prim", n |-> 1]
             /\ s.hubs[h].target.n \in DOMAIN s.proxies
          THEN CHOOSE after \in
                 {IF written.threw THEN [written.s EXCEPT !.raised = TRUE]
                  ELSE written.s :
                    written \in
                      {SetValue(s, [t |-> "proxy", n |-> s.hubs[h].target.n],
                                change.key, [t |-> "prim", n |-> 2])}} : TRUE
          ELSE s)
  ELSE s

\* subscribers.forEach(subscriber => subscriber(change, this.target)), from
\* the place n of the entry list on: entries added during the pass are
\* visited, entries deleted before their turn are not.  The exception of a
\* subscriber leaves forEach: the subscribers after it are not called, and
\* s.raised records the exception.
RECURSIVE forEach(_, _, _, _)
forEach(s, h, n, change) ==
  IF n > Len(s.hubs[h].subscribers) THEN s
  ELSE IF s.hubs[h].subscribers[n] = Removed THEN forEach(s, h, n + 1, change)
  ELSE
    LET f == s.hubs[h].subscribers[n]
        visits == {m \in 1..Len(s.calls) :
                     /\ s.calls[m].observer = h
                     /\ s.calls[m].subscriber = f
                     /\ s.calls[m].change \in {change, Seen(s, change)}}
    IN  IF Cardinality(visits) >= MaxVisits
        THEN [s EXCEPT !.raised = TRUE, !.hung = TRUE]
        ELSE CHOOSE done \in
               {IF after.raised THEN after ELSE forEach(after, h, n + 1, change) :
                  after \in
                    {Body([s EXCEPT !.calls =
                             Append(@, [observer |-> h, subscriber |-> f,
                                        change |-> Seen(s, change),
                                        target |-> s.hubs[h].target])],
                          h, f, change)}} : TRUE

\* A dispatch that calls each subscriber for one change only: the
\* subscribers are dropped after the pass
dispatch_Once(s, h, change) ==
  [forEach(s, h, 1, change) EXCEPT !.hubs[h].subscribers = <<>>]

\* dispatch (change)
dispatch(s, h, change) == forEach(s, h, 1, change)

\* A notify that dispatches to its own hub before it relays to _handler
RECURSIVE notify_OwnFirst(_, _, _)
notify_OwnFirst(s, h, change) ==
  LET own == dispatch(s, h, change)
  IN  IF own.raised \/ s.hubs[h].handler = 0 THEN own
      ELSE notify_OwnFirst(own, s.hubs[h].handler, change)

\* function notify (change): _handler(change), then observer.dispatch(change)
RECURSIVE notify(_, _, _)
notify(s, h, change) ==
  LET relayed == IF s.hubs[h].handler = 0 THEN s
                 ELSE notify(s, s.hubs[h].handler, change)
  IN  IF relayed.raised THEN relayed ELSE dispatch(relayed, h, change)

\* How a call ends: it returns a value or throws, leaving the state s
Returned(s, value) == [s |-> s, ret |-> value, threw |-> FALSE]
Thrown(s)          == [s |-> s, ret |-> Undefined, threw |-> TRUE]

\* The end of a call whose last statement before `return value` was notify
Notified(s, value) == IF s.raised THEN Thrown(s) ELSE Returned(s, value)

\* A get that creates and indexes a hub for an object it does not find
get_Lazy(s, value) ==
  IF value \in DOMAIN s.observers THEN Returned(s, Hub(s.observers[value]))
  ELSE IF ~isObservable(value) THEN Returned(s, Undefined)
  ELSE Returned([s EXCEPT
                   !.hubs = Append(@, [target |-> value, subscribers |-> <<>>,
                                       handler |-> 0, nested |-> {}]),
                   !.observers = (value :> (Len(s.hubs) + 1)) @@ @],
                Hub(Len(s.hubs) + 1))

\* static get (value): __observers__.get(value), the hub or undefined
get(s, value) ==
  Returned(s, IF value \in DOMAIN s.observers THEN Hub(s.observers[value])
              ELSE Undefined)

\* An observe that gives the proxy a ProxyObserver of its own
IndexProxy_OwnHub(s, i, options, h) ==
  [s EXCEPT !.proxies = (i :> [deep |-> options.deep, options |-> options,
                               observer |-> h]) @@ @,
            !.hubs = Append(@, [target |-> Prx(i), subscribers |-> <<>>,
                                handler |-> 0, nested |-> {}]),
            !.observers = (Prx(i) :> (Len(s.hubs) + 1)) @@ @]

\* An observe whose traps observe what they store whatever options.deep is
IndexProxy_AlwaysDeep(s, i, options, h) ==
  [s EXCEPT !.proxies = (i :> [deep |-> TRUE, options |-> options,
                               observer |-> h]) @@ @,
            !.observers = (Prx(i) :> h) @@ @]

\* The part of observe from the creation of the Proxy: the proxy closes over
\* deep, options and notify (the hub h), and is indexed in __observers__.
IndexProxy(s, i, options, h) ==
  [s EXCEPT !.proxies = (i :> [deep |-> options.deep, options |-> options,
                               observer |-> h]) @@ @,
            !.observers = (Prx(i) :> h) @@ @]

\* The containers reachable from object i through own data slots
RECURSIVE ReachFrom(_, _, _)
ReachFrom(p, frontier, seen) ==
  LET next == {j \in DOMAIN p : \E i \in frontier : \E k \in DOMAIN p[i] :
                              p[i][k].value \in {Raw(j), Prx(j)}}
  IN  IF next \subseteq seen THEN seen
      ELSE ReachFrom(p, next \ seen, seen \cup next)

Nested(p, i) == ReachFrom(p, {i}, {})

----------------------------------------------------------------------------
\* Map and Set: the built-in methods, on the contents of collection i.

Entry(key, value) == [key |-> key, value |-> value]

\* Map.prototype.has / Set.prototype.has: keys are compared by identity
Has(s, i, key) ==
  \E n \in 1..Len(s.entries[i]) : s.entries[i][n].key = key

\* Map.prototype.get; a Set has no get method
GetEntry(s, i, key) ==
  IF Has(s, i, key)
  THEN LET n == CHOOSE m \in 1..Len(s.entries[i]) : s.entries[i][m].key = key
       IN  s.entries[i][n].value
  ELSE Undefined

\* Map.prototype.set (and Set.prototype.add with value = key): an existing
\* key keeps its place, a new one goes last
NativeSet(s, i, key, value) ==
  IF Has(s, i, key)
  THEN [s EXCEPT !.entries[i] =
          [n \in 1..Len(@) |-> IF @[n].key = key THEN Entry(key, value) ELSE @[n]]]
  ELSE [s EXCEPT !.entries[i] = Append(@, Entry(key, value))]

NativeAdd(s, i, value) == NativeSet(s, i, value, value)

\* Map.prototype.delete / Set.prototype.delete
NativeDelete(s, i, key) ==
  [s EXCEPT !.entries[i] = SelectSeq(@, LAMBDA e : e.key # key)]

\* Map.prototype.clear / Set.prototype.clear
NativeClear(s, i) == [s EXCEPT !.entries[i] = <<>>]

\* The function a patched method is replaced with: it closes over notify (the
\* hub h) and the options of the observe call; original is the built-in.
Patched(method, h, options) ==
  [t |-> "function", n |-> h, method |-> method, options |-> options]

BuiltIn(method) == [t |-> "function", n |-> 0, method |-> method]

\* target[method]: the own property if patchFn defined one, else the method
\* of the prototype
LookupMethod(p, i, method) ==
  IF hasOwn(p, i, method) THEN p[i][method].value ELSE BuiltIn(method)

\* A patchFn that replaces the method for every collection of the class
patchFn_Shared(s, i, method, fn) ==
  [s EXCEPT !.props =
     [j \in DOMAIN @ |->
        IF KindOf(j) = KindOf(i)
        THEN OrdinaryDefineOwnProperty(@, j, method, [value |-> fn]).props[j]
        ELSE @[j]]]

\* patchFn (target, method, fn): Object.defineProperty(target, method,
\* { value: fn(original) }) on the instance
patchFn(s, i, method, fn) ==
  [s EXCEPT !.props =
     OrdinaryDefineOwnProperty(@, i, method, [value |-> fn]).props]

----------------------------------------------------------------------------
\* static observe (target, options = {}, _handler = noop), options merged
RECURSIVE observe(_, _, _, _)
RECURSIVE deepObserve(_, _, _, _, _, _)
RECURSIVE Reinsert(_, _, _, _, _)

\* A tryObserve that makes the collection the parent of a value that is
\* observed already
tryObserve_Adopting(s, value, options, h) ==
  IF ~isObservable(value) THEN Returned(s, value)
  ELSE IF is(s.observers, value)
    THEN Returned([s EXCEPT !.hubs[s.observers[value]].handler = h], value)
  ELSE observe(s, value, options, h)

\* value => isObservable(value) ? observe(value, options, notify) : value
tryObserve(s, value, options, h) ==
  IF isObservable(value) THEN observe(s, value, options, h)
  ELSE Returned(s, value)

\* value => options.deep && isObservable(value) ? observe(...) : value
tryObserveDeep(s, value, options, h) ==
  IF options.deep THEN tryObserve(s, value, options, h) ELSE Returned(s, value)

\* patchFull: for (const value of entries) target.add(tryObserve(value)), or
\* for (const [key, value] of entries) target.set(tryObserve(key),
\* tryObserve(value)), over the entries still to put back
Reinsert(s, i, rest, options, h) ==
  IF rest = <<>> THEN Returned(s, Undefined)
  ELSE
    LET k == tryObserve(s, Head(rest).key, options, h)
        v == IF KindOf(i) = "Set" THEN k
             ELSE tryObserve(k.s, Head(rest).value, options, h)
    IN  IF k.threw THEN Thrown(k.s)
        ELSE IF v.threw THEN Thrown(v.s)
        ELSE Reinsert(NativeSet(v.s, i, k.ret, v.ret), i, Tail(rest), options, h)

\* patchWeak (target, notify, options, observe)
patchWeak(s, i, options, h) ==
  LET method == IF KindOf(i) \in {"Set", "WeakSet"} THEN "add" ELSE "set"
  IN  patchFn(patchFn(s, i, method, Patched(method, h, options)),
              i, "delete", Patched("delete", h, options))

\* patchFull (target, notify, options, observe)
patchFull(s, i, options, h) ==
  LET again == IF options.deep /\ Len(s.entries[i]) > 0
               THEN Reinsert(NativeClear(s, i), i, s.entries[i], options, h)
               ELSE Returned(s, Undefined)
  IN  IF again.threw THEN Thrown(again.s)
      ELSE Returned(patchFn(patchWeak(again.s, i, options, h),
                            i, "clear", Patched("clear", h, options)),
                    Undefined)

\* for (const key in descriptors) { ... } over the keys still to visit
deepObserve(s, i, descriptors, keys, options, h) ==
  IF keys = <<>> THEN Returned(s, Undefined)
  ELSE IF Head(keys) \notin DOMAIN descriptors
    THEN deepObserve(s, i, descriptors, Tail(keys), options, h)
  ELSE
    LET key == Head(keys)
        descriptor == descriptors[key]
        eligible == isDescriptorObservable(descriptor, Undefined)
    IN  IF eligible = "throw" THEN Thrown(s)
        ELSE IF eligible = "false"
          THEN deepObserve(s, i, descriptors, Tail(keys), options, h)
        ELSE
          LET r == observe(s, descriptor.value, options, h)
              defined == ReflectDefineProperty(r.s.props, i, key,
                           [descriptor EXCEPT !.value = r.ret])
          IN  IF r.threw \/ ~defined.ok THEN Thrown(r.s)
              ELSE deepObserve([r.s EXCEPT !.props = defined.props], i,
                               descriptors, Tail(keys), options, h)

observe(s, target, opts, handler) ==
  IF is(s.observers, target) THEN Returned(s, target)
  \* __observers__.set(primitive, observer): invalid WeakMap key
  ELSE IF ~isObservable(target) THEN Thrown(s)
  ELSE
    LET options == MergeOptions(opts)
        i == target.n
        h == Len(s.hubs) + 1
        s1 == [s EXCEPT
                 !.hubs = Append(@, [target |-> target, subscribers |-> <<>>,
                                     handler |-> handler,
                                     nested |-> IF options.deep
                                                THEN Nested(s.props, i) \ {i}
                                                ELSE {}]),
                 !.observers = (target :> h) @@ @]
        patched == IF isMapOrSet(target) THEN patchFull(s1, i, options, h)
                   ELSE Returned(patchWeak(s1, i, options, h), Undefined)
        deep == IF options.deep
                THEN deepObserve(s1, i, s1.props[i], KeyOrder, options, h)
                ELSE Returned(s1, Undefined)
    IN  IF options.patch /\ (isMapOrSet(target) \/ isWeakMapOrSet(target))
        THEN (IF patched.threw THEN Thrown(patched.s)
              ELSE Returned(patched.s, target))
        ELSE IF deep.threw THEN Thrown(deep.s)
        ELSE Returned(IndexProxy(deep.s, i, options, h), Prx(i))

----------------------------------------------------------------------------
\* The traps of the Proxy over object i.

\* The change descriptor built by the defineProperty trap; its target is the
\* trap's first parameter, the object under the proxy.
DefineChange(changed, value, key, i, old) ==
  IF changed
  THEN [type |-> "set", value |-> value, key |-> key, target |-> Raw(i), old |-> old]
  ELSE [type |-> "add", value |-> value, key |-> key, target |-> Raw(i)]

\* A trap that announces every accepted definition
ShouldNotify_Always(defined, changed, value, old) == defined

\* The test that decides whether a definition is announced
ShouldNotify(defined, changed, value, old) ==
  defined /\ (~changed \/ value # old)

\* defineProperty (target, key, descriptor)
definePropertyTrap(s, i, key, descriptor) ==
  LET px == s.proxies[i]
      old == GetValue(s.props, i, key)
      changed == hasOwn(s.props, i, key)
      value == DescValue(descriptor)
      eligible == IF px.deep THEN isDescriptorObservable(descriptor, Undefined)
                  ELSE "false"
  IN  IF eligible = "throw" THEN Thrown(s)
      ELSE
        CHOOSE completion \in
          {LET defined == ReflectDefineProperty(r.s.props, i, key,
                            IF eligible = "true"
                            THEN [descriptor EXCEPT !.value = r.ret]
                            ELSE descriptor)
               s2 == [r.s EXCEPT !.props = defined.props]
           IN  IF r.threw THEN Thrown(r.s)
               ELSE IF ShouldNotify(defined.ok, changed, value, old)
                 THEN Notified(notify(s2, px.observer,
                                      DefineChange(changed, value, key, i, old)),
                               TRUE)
               ELSE Returned(s2, defined.ok) :
             r \in {IF eligible = "true"
                    THEN observe(s, value, px.options, px.observer)
                    ELSE Returned(s, value)}} : TRUE

\* deleteProperty (target, key)
deletePropertyTrap(s, i, key) ==
  LET px == s.proxies[i]
      old == GetValue(s.props, i, key)
      own == hasOwn(s.props, i, key)
      removed == ReflectDeleteProperty(s.props, i, key)
      deleted == own /\ removed.ok
      s2 == IF own THEN [s EXCEPT !.props = removed.props] ELSE s
  IN  IF deleted
      THEN Notified(notify(s2, px.observer,
                           [type |-> "delete", old |-> old, key |-> key,
                            target |-> Raw(i)]),
                    TRUE)
      ELSE Returned(s2, FALSE)

\* reference[key] = value: [[Set]] with the reference as receiver.  On a proxy
\* there is no set trap, so the target's OrdinarySet runs and ends in the
\* receiver's [[DefineOwnProperty]]: the defineProperty trap.
DataDescriptor(value) ==
  [value |-> value, writable |-> TRUE, enumerable |-> TRUE, configurable |-> TRUE]

SetDescriptor(p, i, key, value) ==
  IF hasOwn(p, i, key) THEN [value |-> value] ELSE DataDescriptor(value)

SetValue(s, ref, key, value) ==
  LET i == ref.n
  IN  IF hasOwn(s.props, i, key) /\ ~s.props[i][key].writable
      THEN Returned(s, FALSE)
      ELSE IF ref.t = "proxy"
        THEN definePropertyTrap(s, i, key, SetDescriptor(s.props, i, key, value))
      ELSE LET defined == ReflectDefineProperty(s.props, i, key,
                            SetDescriptor(s.props, i, key, value))
           IN  Returned([s EXCEPT !.props = defined.props], defined.ok)

\* Reflect.defineProperty(reference, key, descriptor)
DefineOwnProperty(s, ref, key, descriptor) ==
  IF ref.t = "proxy" THEN definePropertyTrap(s, ref.n, key, descriptor)
  ELSE LET defined == ReflectDefineProperty(s.props, ref.n, key, descriptor)
       IN  Returned([s EXCEPT !.props = defined.props], defined.ok)

\* Reflect.deleteProperty(reference, key)
Delete(s, ref, key) ==
  IF ref.t = "proxy" THEN deletePropertyTrap(s, ref.n, key)
  ELSE LET removed == ReflectDeleteProperty(s.props, ref.n, key)
       IN  Returned([s EXCEPT !.props = removed.props], removed.ok)

\* A step of a built-in method that must succeed: Set(O, P, V, true) and
\* DeletePropertyOrThrow(O, P) throw a TypeError on a false result
OrThrow(r) ==
  CHOOSE completion \in
    {IF ~step.threw /\ step.ret = FALSE THEN Thrown(step.s) ELSE step :
       step \in {r}} : TRUE

\* The length of the array under a reference
LengthOf(p, i) == p[i]["length"].value.n

\* Array.prototype.push.call(reference, value): Set(O, ToString(len), value,
\* true), then Set(O, "length", len + 1, true); returns the new length
ArrayPush(s, ref, value) ==
  LET len == LengthOf(s.props, ref.n)
  IN  CHOOSE completion \in
        UNION {{IF stored.threw THEN stored
                ELSE IF grown.threw THEN grown
                ELSE Returned(grown.s, Prim(len + 1)) :
                  grown \in {OrThrow(SetValue(stored.s, ref, "length",
                                              Prim(len + 1)))}} :
               stored \in {OrThrow(SetValue(s, ref, IndexKey(len), value))}} :
        TRUE

\* Array.prototype.pop.call(reference): on an empty array Set(O, "length",
\* 0, true); otherwise Get(O, len - 1), DeletePropertyOrThrow(O, len - 1),
\* then Set(O, "length", len - 1, true); returns the element
ArrayPop(s, ref) ==
  LET len == LengthOf(s.props, ref.n)
      element == GetValue(s.props, ref.n, IndexKey(len - 1))
  IN  IF len = 0
      THEN CHOOSE completion \in
             {IF emptied.threw THEN emptied ELSE Returned(emptied.s, Undefined) :
                emptied \in {OrThrow(SetValue(s, ref, "length", Prim(0)))}} :
             TRUE
      ELSE CHOOSE completion \in
             UNION {{IF removed.threw THEN removed
                     ELSE IF shrunk.threw THEN shrunk
                     ELSE Returned(shrunk.s, element) :
                       shrunk \in {OrThrow(SetValue(removed.s, ref, "length",
                                                    Prim(len - 1)))}} :
                    removed \in {OrThrow(Delete(s, ref, IndexKey(len - 1)))}} :
             TRUE

----------------------------------------------------------------------------
\* Method calls on the collection i; this is the collection.

\* collection.add(value): Set.prototype.add, or proxyAdd (genProxyAdd)
CollectionAdd(s, i, value) ==
  LET fn == LookupMethod(s.props, i, "add")
      observed == tryObserveDeep(s, value, fn.options, fn.n)
      change == [type |-> "add", value |-> value, target |-> Raw(i)]
  IN  IF fn = BuiltIn("add") THEN Returned(NativeAdd(s, i, value), Raw(i))
      ELSE IF Has(s, i, value) THEN Returned(s, Raw(i))
      ELSE IF observed.threw THEN Thrown(observed.s)
      ELSE Notified(notify(NativeAdd(observed.s, i, observed.ret), fn.n, change),
                    Raw(i))

\* collection.set(key, value): Map.prototype.set, or proxySet (genProxySet);
\* old is `isOld && this.get(key)`, read only when isOld
CollectionSet(s, i, key, value) ==
  LET fn == LookupMethod(s.props, i, "set")
      isOld == Has(s, i, key)
      old == GetEntry(s, i, key)
      change == IF isOld
                THEN [type |-> "set", key |-> key, value |-> value,
                      target |-> Raw(i), old |-> old]
                ELSE [type |-> "add", key |-> key, value |-> value,
                      target |-> Raw(i)]
      k == tryObserveDeep(s, key, fn.options, fn.n)
      v == tryObserveDeep(k.s, value, fn.options, fn.n)
  IN  IF fn = BuiltIn("set") THEN Returned(NativeSet(s, i, key, value), Raw(i))
      ELSE IF isOld /\ old = value THEN Returned(s, Raw(i))
      ELSE IF k.threw THEN Thrown(k.s)
      ELSE IF v.threw THEN Thrown(v.s)
      ELSE Notified(notify(NativeSet(v.s, i, k.ret, v.ret), fn.n, change),
                    Raw(i))

\* collection.delete(key): the built-in, or proxyDelete (genProxyDelete),
\* which starts with this.get(key): a TypeError on a Set, which has no get
CollectionDelete(s, i, key) ==
  LET fn == LookupMethod(s.props, i, "delete")
      old == GetEntry(s, i, key)
      removed == Has(s, i, key)
      change == [type |-> "delete", old |-> old, key |-> key, target |-> Raw(i)]
  IN  IF fn = BuiltIn("delete") THEN Returned(NativeDelete(s, i, key), removed)
      ELSE IF KindOf(i) \in {"Set", "WeakSet"} THEN Thrown(s)
      ELSE IF removed
        THEN Notified(notify(NativeDelete(s, i, key), fn.n, change), TRUE)
      ELSE Returned(s, FALSE)

\* collection.clear(): the built-in, or proxyClear (genProxyClear), whose
\* first statement reads `target`, a name no scope of patch.js declares: a
\* ReferenceError
CollectionClear(s, i) ==
  LET fn == LookupMethod(s.props, i, "clear")
  IN  IF fn = BuiltIn("clear") THEN Returned(NativeClear(s, i), Undefined)
      ELSE Thrown(s)

----------------------------------------------------------------------------
\* The calls a program makes.

\* The references a program can hold: the objects it created and the proxies
\* observe has built.
Refs == RawRefs \cup {Prx(i) : i \in DOMAIN proxies}

\* The references a program mutates through: an object it has not passed to
\* observe, and the handle observe returned for one it has.
MutableRefs ==
  {Raw(i) : i \in {j \in Ids : Raw(j) \notin DOMAIN observers}}
    \cup {Prx(i) : i \in DOMAIN proxies}

\* The values a program passes to observe, get and is
Values == {Prim(1)} \cup Refs

\* The values a program stores in a slot
StoredValues == Prims \cup RawRefs

\* The options objects passed to observe: {} and { deep: false }
NoOptions == [f \in {} |-> FALSE]
OptionInputs == {NoOptions, [deep |-> FALSE]}

\* The descriptors passed to Object.defineProperty
DescriptorInputs ==
  {[value |-> v] : v \in Prims}
    \cup {[value |-> v, enumerable |-> FALSE] : v \in Prims}

State == [props |-> props, observers |-> observers, hubs |-> hubs,
          proxies |-> proxies, entries |-> entries, calls |-> <<>>,
          raised |-> FALSE, hung |-> FALSE, tampered |-> {}]

\* The state an operation leaves, with the record of the operation
Finish(op, ref, key, arg, r) ==
  \E done \in {r} :
    /\ props' = done.s.props
    /\ observers' = done.s.observers
    /\ hubs' = Compact(done.s.hubs)
    /\ proxies' = done.s.proxies
    /\ entries' = done.s.entries
    /\ last' = [op |-> op, ref |-> ref, key |-> key, arg |-> arg,
                ret |-> done.ret, threw |-> done.threw /\ ~done.s.hung,
                calls |-> done.s.calls, hung |-> done.s.hung]

Init ==
  /\ props = [i \in Ids |-> [k \in {} |-> Undefined]]
  /\ observers = [v \in {} |-> 0]
  /\ hubs = <<>>
  /\ proxies = [i \in {} |-> Undefined]
  /\ entries = [i \in {} |-> <<>>]
  /\ last = [op |-> "init", ref |-> Undefined, key |-> "", arg |-> Undefined,
             ret |-> Undefined, threw |-> FALSE, calls |-> <<>>, hung |-> FALSE]

\* ProxyObserver.observe(target, options)
Observe ==
  \E target \in Values, options \in OptionInputs :
    Finish("observe", target, "", Undefined,
           observe(State, target, options, 0))

\* ProxyObserver.get(value)
Get ==
  \E value \in Values :
    Finish("get", value, "", Undefined, get(State, value))

\* observer.subscribe(subscriber), for a subscriber among fns
SubscribeOf(fns) ==
  \E h \in 1..Len(hubs), f \in fns :
    /\ hubs' = [hubs EXCEPT ![h].subscribers = subscribe(@, f)]
    /\ last' = [op |-> "subscribe", ref |-> hubs[h].target, key |-> "",
                arg |-> f, ret |-> h, threw |-> FALSE, calls |-> <<>>, hung |-> FALSE]
    /\ UNCHANGED <<props, observers, proxies, entries>>

\* observer.unsubscribe(subscriber), for a subscriber among fns
UnsubscribeOf(fns) ==
  \E h \in 1..Len(hubs), f \in fns :
    /\ hubs' = Compact([hubs EXCEPT ![h].subscribers = unsubscribe(@, f)])
    /\ last' = [op |-> "unsubscribe", ref |-> hubs[h].target, key |-> "",
                arg |-> f, ret |-> h, threw |-> FALSE, calls |-> <<>>, hung |-> FALSE]
    /\ UNCHANGED <<props, observers, proxies, entries>>

Subscribe == SubscribeOf(Subs)

Unsubscribe == UnsubscribeOf(Subs)

\* reference[key] = value
Assign ==
  \E ref \in MutableRefs, key \in Keys, value \in StoredValues :
    Finish("assign", ref, key, value, SetValue(State, ref, key, value))

\* Object.defineProperty(reference, key, descriptor)
Define ==
  \E ref \in MutableRefs, key \in Keys, descriptor \in DescriptorInputs :
    Finish("define", ref, key, descriptor,
           DefineOwnProperty(State, ref, key, descriptor))

\* reference.increment(): a method of the object's class, this[key] += 1,
\* invoked through the reference, so that this is the reference
Increment ==
  \E ref \in MutableRefs, key \in Keys :
    /\ hasOwn(props, ref.n, key)
    /\ props[ref.n][key].value \in {Prim(n) : n \in 1..(MaxPrim - 1)}
    /\ Finish("method", ref, key, Prim(props[ref.n][key].value.n + 1),
              SetValue(State, ref, key, Prim(props[ref.n][key].value.n + 1)))

\* delete reference[key]
DeleteKey ==
  \E ref \in MutableRefs, key \in Keys :
    Finish("delete", ref, key, Undefined, Delete(State, ref, key))

Next ==
  \/ Observe
  \/ Get
  \/ Subscribe
  \/ Unsubscribe
  \/ Assign
  \/ Define
  \/ Increment
  \/ DeleteKey

Spec == Init /\ [][Next]_vars

----------------------------------------------------------------------------
\* Programs over an array and a plain object.

\* The array [] as the heap holds it
EmptyArray ==
  "length" :> [value |-> Prim(0), writable |-> TRUE, enumerable |-> FALSE,
               configurable |-> FALSE]

\* The reference a program uses for the array: the array while it has not
\* been passed to observe, then the handle observe returned
ArrayRefs ==
  {Raw(i) : i \in {j \in ArrayIds : Raw(j) \notin DOMAIN observers}}
    \cup {Prx(i) : i \in DOMAIN proxies \cap ArrayIds}

\* The values a program pushes: a string and an object
ElementInputs == {Prim(1), Raw(1)}

ArrayInit ==
  /\ props = (1 :> [k \in {} |-> Undefined]) @@ (3 :> EmptyArray)
  /\ observers = [v \in {} |-> 0]
  /\ hubs = <<>>
  /\ proxies = [i \in {} |-> Undefined]
  /\ entries = [i \in {} |-> <<>>]
  /\ last = [op |-> "init", ref |-> Undefined, key |-> "", arg |-> Undefined,
             ret |-> Undefined, threw |-> FALSE, calls |-> <<>>, hung |-> FALSE]

\* ProxyObserver.observe(array, options)
ObserveArray ==
  \E i \in ArrayIds, options \in OptionInputs :
    Finish("observe", Raw(i), "", Undefined,
           observe(State, Raw(i), options, 0))

\* reference.push(value)
Push ==
  \E ref \in ArrayRefs, value \in ElementInputs :
    /\ LengthOf(props, ref.n) < MaxLen
    /\ Finish("push", ref, IndexKey(LengthOf(props, ref.n)), value,
              ArrayPush(State, ref, value))

\* reference.pop()
Pop ==
  \E ref \in ArrayRefs :
    Finish("pop", ref, IndexKey(LengthOf(props, ref.n) - 1), Undefined,
           ArrayPop(State, ref))

\* delete reference[index]
DeleteIndex ==
  \E ref \in ArrayRefs, n \in 0..(MaxLen - 1) :
    Finish("delete", ref, IndexKey(n), Undefined,
           Delete(State, ref, IndexKey(n)))

ArrayNext ==
  \/ ObserveArray
  \/ Subscribe
  \/ Unsubscribe
  \/ Push
  \/ Pop
  \/ DeleteIndex

ArraySpec == ArrayInit /\ [][ArrayNext]_vars

----------------------------------------------------------------------------
\* Programs over one plain object and three subscriber functions, one of
\* which throws.

HubSubs == {"f", "g"} \cup Throwing

HubInit ==
  /\ props = (1 :> [k \in {} |-> Undefined])
  /\ observers = [v \in {} |-> 0]
  /\ hubs = <<>>
  /\ proxies = [i \in {} |-> Undefined]
  /\ entries = [i \in {} |-> <<>>]
  /\ last = [op |-> "init", ref |-> Undefined, key |-> "", arg |-> Undefined,
             ret |-> Undefined, threw |-> FALSE, calls |-> <<>>, hung |-> FALSE]

\* ProxyObserver.observe(object)
ObserveObject ==
  Finish("observe", Raw(1), "", Undefined,
         observe(State, Raw(1), NoOptions, 0))

SubscribeAny == SubscribeOf(HubSubs)

UnsubscribeAny == UnsubscribeOf(HubSubs)

\* proxy[key] = value
AssignThrough ==
  \E i \in DOMAIN proxies, key \in Keys, value \in Prims :
    Finish("assign", Prx(i), key, value,
           SetValue(State, Prx(i), key, value))

\* delete proxy[key]
DeleteThrough ==
  \E i \in DOMAIN proxies, key \in Keys :
    Finish("delete", Prx(i), key, Undefined, Delete(State, Prx(i), key))

HubNext ==
  \/ ObserveObject
  \/ SubscribeAny
  \/ UnsubscribeAny
  \/ AssignThrough
  \/ DeleteThrough

HubSpec == HubInit /\ [][HubNext]_vars

----------------------------------------------------------------------------
\* Programs over one plain object whose subscribers act during the pass that
\* calls them: they subscribe, unsubscribe, write to the change object or
\* assign through the facade.

ReentrySubs == {"f", "again", "quit", "adder", "tamper", "writer"}

\* Bound of the model: the functions subscribed to one hub by the program
MaxSubs == 3

ReentryInit == HubInit

SubscribeActing ==
  /\ \A h \in 1..Len(hubs) : Len(hubs[h].subscribers) < MaxSubs
  /\ SubscribeOf(ReentrySubs)

UnsubscribeActing == UnsubscribeOf(ReentrySubs)

ReentryNext ==
  \/ ObserveObject
  \/ SubscribeActing
  \/ UnsubscribeActing
  \/ AssignThrough
  \/ DeleteThrough

ReentrySpec == ReentryInit /\ [][ReentryNext]_vars

----------------------------------------------------------------------------
\* Programs over an object whose slot may be read-only or permanent, as
\* Object.defineProperty, Object.seal and Object.freeze leave it.

\* The slot `a` before the object is observed
SlotInputs ==
  {[value |-> Prim(1), writable |-> w, enumerable |-> TRUE, configurable |-> c] :
     w \in BOOLEAN, c \in BOOLEAN}

\* The descriptors passed to Reflect.defineProperty through the facade
RejectDescriptorInputs ==
  {[value |-> v] : v \in {Prim(1), Prim(2), Raw(2)}}
    \cup {[value |-> Prim(1), enumerable |-> FALSE]}

RejectInit ==
  /\ \E slot \in SlotInputs :
       props = (1 :> ("a" :> slot)) @@ (2 :> [k \in {} |-> Undefined])
  /\ observers = [v \in {} |-> 0]
  /\ hubs = <<>>
  /\ proxies = [i \in {} |-> Undefined]
  /\ entries = [i \in {} |-> <<>>]
  /\ last = [op |-> "init", ref |-> Undefined, key |-> "", arg |-> Undefined,
             ret |-> Undefined, threw |-> FALSE, calls |-> <<>>, hung |-> FALSE]

\* ProxyObserver.observe(object, options)
ObserveSlotted ==
  \E options \in OptionInputs :
    Finish("observe", Raw(1), "", Undefined,
           observe(State, Raw(1), options, 0))

\* Reflect.defineProperty(proxy, key, descriptor)
DefineThrough ==
  \E i \in DOMAIN proxies, key \in Keys, descriptor \in RejectDescriptorInputs :
    Finish("define", Prx(i), key, descriptor,
           DefineOwnProperty(State, Prx(i), key, descriptor))

\* Reflect.set(proxy, key, value)
SetThrough ==
  \E i \in DOMAIN proxies, key \in Keys, value \in {Prim(2), Raw(2)} :
    Finish("assign", Prx(i), key, value,
           SetValue(State, Prx(i), key, value))

RejectNext ==
  \/ ObserveSlotted
  \/ Subscribe
  \/ DefineThrough
  \/ SetThrough
  \/ DeleteThrough

RejectSpec == RejectInit /\ [][RejectNext]_vars

----------------------------------------------------------------------------
\* Programs over hash-collections and a plain object, observed with patch.

\* The options objects passed to observe: { patch: true } and
\* { patch: true, deep: false }
PatchOptionInputs == {[patch |-> TRUE], [patch |-> TRUE, deep |-> FALSE]}

\* The collections the program has created, by class
SetIds == {i \in DOMAIN entries : KindOf(i) = "Set"}
MapIds == {i \in DOMAIN entries : KindOf(i) = "Map"}

\* The collections a program passes to observe; the Set 5 is never observed
ObservedInputs == DOMAIN entries \ {5}

\* A heap of empty collections and one empty plain object
HeapOf(collections) ==
  /\ props = [i \in {1} \cup collections |-> [k \in {} |-> Undefined]]
  /\ observers = [v \in {} |-> 0]
  /\ hubs = <<>>
  /\ proxies = [i \in {} |-> Undefined]
  /\ entries = [i \in collections |-> <<>>]
  /\ last = [op |-> "init", ref |-> Undefined, key |-> "", arg |-> Undefined,
             ret |-> Undefined, threw |-> FALSE, calls |-> <<>>, hung |-> FALSE]

\* Two Sets
PatchInit == HeapOf({4, 5})

\* The values a program stores in a Map: a primitive, an empty object, and an
\* object that holds an object
MapValueInputs == ElementInputs \cup {Raw(2)}

\* A Map, an empty object and an object whose slot holds it: { a: {} }
MapInit ==
  /\ props = (1 :> [k \in {} |-> Undefined])
               @@ (2 :> ("a" :> DataDescriptor(Raw(1))))
               @@ (6 :> [k \in {} |-> Undefined])
  /\ observers = [v \in {} |-> 0]
  /\ hubs = <<>>
  /\ proxies = [i \in {} |-> Undefined]
  /\ entries = [i \in {6} |-> <<>>]
  /\ last = [op |-> "init", ref |-> Undefined, key |-> "", arg |-> Undefined,
             ret |-> Undefined, threw |-> FALSE, calls |-> <<>>, hung |-> FALSE]

\* ProxyObserver.observe(collection, { patch: true, ... })
ObserveCollection ==
  \E i \in ObservedInputs, options \in PatchOptionInputs :
    Finish("observe", Raw(i), "", options,
           observe(State, Raw(i), options, 0))

\* set.add(value)
AddElement ==
  \E i \in SetIds, value \in ElementInputs :
    Finish("add", Raw(i), "", value, CollectionAdd(State, i, value))

\* map.set(key, value)
SetEntry ==
  \E i \in MapIds, value \in MapValueInputs :
    Finish("set", Raw(i), "k", value, CollectionSet(State, i, Prim(1), value))

\* collection.delete(key)
RemoveEntry ==
  \E i \in DOMAIN entries :
    Finish("remove", Raw(i), "", Prim(1), CollectionDelete(State, i, Prim(1)))

\* collection.clear()
Clear ==
  \E i \in DOMAIN entries :
    Finish("clear", Raw(i), "", Undefined, CollectionClear(State, i))

PatchNext ==
  \/ ObserveCollection
  \/ Subscribe
  \/ AddElement
  \/ RemoveEntry
  \/ Clear

PatchSpec == PatchInit /\ [][PatchNext]_vars

MapNext ==
  \/ ObserveCollection
  \/ Subscribe
  \/ SetEntry
  \/ RemoveEntry
  \/ Clear

MapSpec == MapInit /\ [][MapNext]_vars

----------------------------------------------------------------------------
\* Programs over a Map and a Set, both observed with patch, and an object
\* that is stored in one, taken out of it and stored in the other.

ChainInit == HeapOf({4, 6})

\* ProxyObserver.observe(collection, { patch: true })
ObserveChained ==
  \E i \in DOMAIN entries :
    Finish("observe", Raw(i), "", [patch |-> TRUE],
           observe(State, Raw(i), [patch |-> TRUE], 0))

\* map.set(key, value), the value being a primitive or the object
SetChained ==
  \E i \in MapIds, value \in ElementInputs :
    Finish("set", Raw(i), "k", value, CollectionSet(State, i, Prim(1), value))

ChainNext ==
  \/ ObserveChained
  \/ Subscribe
  \/ Unsubscribe
  \/ SetChained
  \/ AddElement
  \/ RemoveEntry
  \/ AssignThrough
  \/ DeleteThrough

ChainSpec == ChainInit /\ [][ChainNext]_vars

----------------------------------------------------------------------------
\* Programs over a Set observed with patch that holds a Set that holds an
\* object: the hubs of the nested values relay to the hub of their container.

\* The values a program adds to a Set: the other Set and the object
NestedInputs == {Raw(5), Raw(1)}

\* The subscriber functions of these programs
RelaySubs == {"f"} \cup Throwing

RelayInit == HeapOf({4, 5})

\* ProxyObserver.observe(set, { patch: true })
ObserveRoot ==
  Finish("observe", Raw(4), "", [patch |-> TRUE],
         observe(State, Raw(4), [patch |-> TRUE], 0))

\* set.add(value), the value being a Set or an object
AddNested ==
  \E i \in SetIds, value \in NestedInputs :
    /\ value # Raw(i)
    /\ Finish("add", Raw(i), "", value, CollectionAdd(State, i, value))

SubscribeRelay == SubscribeOf(RelaySubs)

\* The proxy a program assigns and deletes through is an element taken out
\* of a Set
RelayNext ==
  \/ ObserveRoot
  \/ AddNested
  \/ SubscribeRelay
  \/ AssignThrough
  \/ DeleteThrough

RelaySpec == RelayInit /\ [][RelayNext]_vars

----------------------------------------------------------------------------
\* Programs over an object that holds a Map, { a: new Map() }, observed with
\* and without an ignore predicate.

\* The options objects passed to observe
IgnoreOptionInputs ==
  {NoOptions, [ignore |-> "native"], [deep |-> FALSE],
   [deep |-> FALSE, ignore |-> "native"], [patch |-> TRUE]}

IgnoreInit ==
  /\ props = (1 :> ("a" :> DataDescriptor(Raw(6))))
               @@ (6 :> [k \in {} |-> Undefined])
  /\ observers = [v \in {} |-> 0]
  /\ hubs = <<>>
  /\ proxies = [i \in {} |-> Undefined]
  /\ entries = [i \in {6} |-> <<>>]
  /\ last = [op |-> "init", ref |-> Undefined, key |-> "", arg |-> Undefined,
             ret |-> Undefined, threw |-> FALSE, calls |-> <<>>, hung |-> FALSE]

\* ProxyObserver.observe(object, options)
ObserveHolder ==
  \E options \in IgnoreOptionInputs :
    Finish("observe", Raw(1), "", options,
           observe(State, Raw(1), options, 0))

\* ProxyObserver.observe(map): the Map itself, with the default options
ObserveMap ==
  Finish("observe", Raw(6), "", NoOptions,
         observe(State, Raw(6), NoOptions, 0))

\* reference.set(key, value): through a Proxy over a Map that has no own
\* set, reference.set is Map.prototype.set and is called with the Proxy as
\* this, which has no [[MapData]]: a TypeError
MapSetThrough(s, ref, key, value) ==
  IF ref.t = "proxy" /\ LookupMethod(s.props, ref.n, "set") = BuiltIn("set")
  THEN Thrown(s)
  ELSE CollectionSet(s, ref.n, key, value)

\* map.set(key, value), through the Map or through the Proxy over it
SetHeld ==
  \E ref \in {Raw(6)} \cup {Prx(i) : i \in DOMAIN proxies \cap {6}},
     value \in Prims :
    Finish("set", ref, "k", value, MapSetThrough(State, ref, Prim(1), value))

IgnoreNext ==
  \/ ObserveHolder
  \/ ObserveMap
  \/ Subscribe
  \/ SetHeld
  \/ AssignThrough
  \/ DeleteThrough

IgnoreSpec == IgnoreInit /\ [][IgnoreNext]_vars

----------------------------------------------------------------------------
\* Calls of isDescriptorObservable(descriptor, options).

\* The descriptors: data descriptors as Object.getOwnPropertyDescriptors and
\* the defineProperty trap give them, of a primitive, a plain object and a
\* Map, and accessor descriptors
EligibleDescriptorInputs ==
  {[value |-> v, writable |-> w, enumerable |-> TRUE, configurable |-> c] :
     v \in {Prim(1), Raw(1), Raw(6)}, w \in BOOLEAN, c \in BOOLEAN}
    \cup {[value |-> v] : v \in {Prim(1), Raw(1)}}
    \cup {[get |-> TRUE, enumerable |-> TRUE, configurable |-> TRUE],
          [set |-> TRUE, enumerable |-> TRUE, configurable |-> TRUE]}

\* The options: none (as the deep loop and the trap call it), the merged
\* options of an observe call without ignore, and with each predicate
EligibleOptionInputs ==
  {Undefined}
    \cup {[deep |-> TRUE, patch |-> patch] : patch \in BOOLEAN}
    \cup {[deep |-> TRUE, patch |-> patch, ignore |-> predicate] :
            patch \in BOOLEAN, predicate \in {"all", "none", "native"}}

\* The arguments of a call still to be made
EligibleInit ==
  /\ props = (1 :> [k \in {} |-> Undefined]) @@ (6 :> [k \in {} |-> Undefined])
  /\ observers = [v \in {} |-> 0]
  /\ hubs = <<>>
  /\ proxies = [i \in {} |-> Undefined]
  /\ entries = [i \in {6} |-> <<>>]
  /\ \E descriptor \in EligibleDescriptorInputs, options \in EligibleOptionInputs :
       last = [op |-> "arguments", ref |-> Undefined, key |-> "",
               arg |-> <<descriptor, options>>,
               ret |-> Undefined, threw |-> FALSE, calls |-> <<>>, hung |-> FALSE]

\* A boolean as a value
Boolean(b) == [t |-> "boolean", n |-> IF b THEN 1 ELSE 0]

\* isDescriptorObservable(descriptor, options)
Eligible ==
  /\ last.op = "arguments"
  /\ \E result \in {isDescriptorObservable(last.arg[1], last.arg[2])} :
       last' = [last EXCEPT !.op = "isDescriptorObservable",
                            !.ret = IF result = "throw" THEN Undefined
                                    ELSE Boolean(result = "true"),
                            !.threw = (result = "throw")]
  /\ UNCHANGED <<props, observers, hubs, proxies, entries>>

EligibleNext == Eligible

EligibleSpec == EligibleInit /\ [][EligibleNext]_vars

----------------------------------------------------------------------------
\* Properties.

\* The calls hub h made to subscriber f during the operation recorded in l
CallsTo(l, h, f) ==
  SelectSeq(l.calls, LAMBDA c : c.observer = h /\ c.subscriber = f)

SubscribersOf(h) == {hubs[h].subscribers[n] : n \in 1..Len(hubs[h].subscribers)}

\* The hub the traps of the proxy over object i notify
HubOfProxy(i) == proxies[i].observer

\* The value an assignment or a definition gives the slot
ArgValue(l) == IF l.op = "define" THEN DescValue(l.arg) ELSE l.arg

\* The operation recorded in l went through the facade of object i, on key
ThroughFacade(l, ops, i, key) ==
  l.op \in ops /\ l.ref = Prx(i) /\ l.key = key

\* Every subscriber of the hub of facade i was called exactly once during
\* the operation recorded in l, with a change of that type for that key
NotifiedOnce(l, i, type, key) ==
  \A f \in SubscribersOf(HubOfProxy(i)) :
    LET cs == CallsTo(l, HubOfProxy(i), f)
    IN  Len(cs) = 1 /\ cs[1].change.type = type /\ cs[1].change.key = key

TheChange(l, i, f) == CallsTo(l, HubOfProxy(i), f)[1].change

\* C1: assigning p[k] = v through the facade of an observed container, where
\* k is an own (writable) key and v differs from the current value, calls
\* every subscriber of the hub exactly once with a change of type 'set', key
\* k, value v and old equal to the previous value; also when a method invoked
\* through the facade makes the assignment.
C1_SetStep(i, k) ==
  (/\ ThroughFacade(last', {"assign", "method"}, i, k)
   /\ hasOwn(props, i, k)
   /\ props[i][k].writable
   /\ last'.arg # props[i][k].value)
  => /\ NotifiedOnce(last', i, "set", k)
     /\ \A f \in SubscribersOf(HubOfProxy(i)) :
          /\ TheChange(last', i, f).value = last'.arg
          /\ TheChange(last', i, f).old = props[i][k].value

C1_SetNotification ==
  [][\A i \in DOMAIN proxies, k \in Keys : C1_SetStep(i, k)]_vars

\* C2: assigning p[k] = v through the facade where k is not an own key calls
\* every subscriber exactly once with a change of type 'add', key k and
\* value v, and the change has no old field.
C2_AddStep(i, k) ==
  (/\ ThroughFacade(last', {"assign"}, i, k)
   /\ ~hasOwn(props, i, k))
  => /\ NotifiedOnce(last', i, "add", k)
     /\ \A f \in SubscribersOf(HubOfProxy(i)) :
          /\ TheChange(last', i, f).value = last'.arg
          /\ "old" \notin DOMAIN TheChange(last', i, f)

C2_AddNotification ==
  [][\A i \in DOMAIN proxies, k \in Keys : C2_AddStep(i, k)]_vars

\* C3: deleting an own (configurable) key k through the facade calls every
\* subscriber exactly once with a change of type 'delete', key k and old
\* equal to the value held before; deleting a key the target does not own
\* calls nobody, leaves the target unchanged and reports success to the
\* caller, as the delete of a missing key does on the container itself.
C3_DeleteStep(i, k) ==
  /\ (/\ ThroughFacade(last', {"delete"}, i, k)
      /\ hasOwn(props, i, k)
      /\ props[i][k].configurable)
     => /\ NotifiedOnce(last', i, "delete", k)
        /\ \A f \in SubscribersOf(HubOfProxy(i)) :
             TheChange(last', i, f).old = props[i][k].value
  /\ (/\ ThroughFacade(last', {"delete"}, i, k)
      /\ ~hasOwn(props, i, k))
     => /\ last'.calls = <<>>
        /\ props' = props
        /\ ~last'.threw
        /\ last'.ret = ReflectDeleteProperty(props, i, k).ok

C3_DeleteNotification ==
  [][\A i \in DOMAIN proxies, k \in Keys : C3_DeleteStep(i, k)]_vars

\* C4: defining or assigning through the facade an existing own key with a
\* value strictly equal to its current value calls no subscriber, also when
\* the definition alters another attribute of the slot.
C4_SameValueStep(i, k) ==
  (/\ ThroughFacade(last', {"assign", "define"}, i, k)
   /\ hasOwn(props, i, k)
   /\ ArgValue(last') = props[i][k].value)
  => last'.calls = <<>>

C4_ValueChangesOnly ==
  [][\A i \in DOMAIN proxies, k \in Keys : C4_SameValueStep(i, k)]_vars

\* A definition through a facade whose hub has a subscriber was accepted with
\* enumerable: false and the value the slot holds, and nobody was called
C4_Witness ==
  /\ last.op = "define"
  /\ last.ref.t = "proxy"
  /\ ~last.threw
  /\ last.ret = TRUE
  /\ "enumerable" \in DOMAIN last.arg
  /\ SubscribersOf(HubOfProxy(last.ref.n)) # {}
  /\ ~props[last.ref.n][last.key].enumerable
  /\ last.calls = <<>>

\* C5: observe is idempotent on handles: observe(h) of a handle h returns h
\* itself, creates no hub and adds no registry entry, so get(h) is the same
\* hub before and after.
C5_HandleStep(i) ==
  (last'.op = "observe" /\ last'.ref = Prx(i))
  => /\ ~last'.threw
     /\ last'.ret = Prx(i)
     /\ hubs' = hubs
     /\ observers' = observers
     /\ proxies' = proxies
     /\ get([State EXCEPT !.observers = observers'], Prx(i)).ret
          = get(State, Prx(i)).ret

C5_ObserveHandleIdempotent ==
  [][\A i \in DOMAIN proxies : C5_HandleStep(i)]_vars

\* observe was called on a handle and returned it, with two hubs in existence
C5_Witness ==
  /\ last.op = "observe"
  /\ last.ref.t = "proxy"
  /\ last.ref.n \in DOMAIN proxies
  /\ ~last.threw
  /\ last.ret = last.ref
  /\ Len(hubs) >= 2

\* C6: observing again a raw value that already has a facade returns that
\* facade, not the raw value, and creates no second hub.
C6_ReobserveStep(i) ==
  (last'.op = "observe" /\ last'.ref = Raw(i))
  => /\ ~last'.threw
     /\ last'.ret = Prx(i)
     /\ hubs' = hubs

C6_ReobserveReturnsWrapper ==
  [][\A i \in DOMAIN proxies : C6_ReobserveStep(i)]_vars

\* C7: for every observed raw value v with handle h, get(v) and get(h) are
\* the same hub, in every state reached by mutations, subscriptions and
\* further observe calls.
C7_SameHub ==
  \A i \in DOMAIN proxies :
    /\ get(State, Raw(i)).ret.t = "observer"
    /\ get(State, Prx(i)).ret = get(State, Raw(i)).ret

\* Both objects have a handle and an assignment through one of them has just
\* been announced to a subscriber
C7_Witness ==
  /\ DOMAIN proxies = Ids
  /\ last.op = "assign"
  /\ last.ref.t = "proxy"
  /\ last.calls # <<>>

\* The raw values observe built a handle for, and those handles
ObservedRaw == {Raw(i) : i \in DOMAIN proxies}

Handles == {Prx(i) : i \in DOMAIN proxies}

\* C8: is(x) is true exactly when x is an observed raw value or the handle
\* returned for one; it is false for every primitive, for undefined and for
\* every object that was never passed to observe.
C8_IsExact ==
  /\ \A x \in RawRefs \cup PrxRefs :
       is(observers, x) <=> x \in ObservedRaw \cup Handles
  /\ \A x \in Prims \cup {Undefined} : ~is(observers, x)

\* C9: get(x) of a value with no registered hub returns undefined without
\* throwing, creates no hub and leaves the registry as it was, so is(x) is
\* still false.
C9_GetStep ==
  (last'.op = "get" /\ last'.ref \notin DOMAIN observers)
  => /\ ~last'.threw
     /\ last'.ret = Undefined
     /\ hubs' = hubs
     /\ observers' = observers
     /\ ~is(observers', last'.ref)

C9_GetUnregistered == [][C9_GetStep]_vars

\* get was called on an object that has no hub, while another object has one
C9_Witness ==
  /\ last.op = "get"
  /\ last.ref \in RawRefs
  /\ last.ref \notin DOMAIN observers
  /\ last.ret = Undefined
  /\ Len(hubs) >= 1

\* C10: with deep observation, a change of the slots of a container that was
\* nested in the root when the root was observed calls every subscriber of
\* the root hub exactly once.
C10_DeepStep(h, c) ==
  (/\ c \in hubs[h].nested
   /\ props'[c] # props[c])
  => \A f \in SubscribersOf(h) : Len(CallsTo(last', h, f)) = 1

C10_DeepDelivery ==
  [][\A h \in 1..Len(hubs), c \in Ids : C10_DeepStep(h, c)]_vars

\* C11: pushing one element x onto an observed array of length n through
\* its facade calls every subscriber exactly once, for a change of type
\* 'add' with key the string of n and value x and without old; the update
\* of length that follows calls nobody.
C11_PushStep(i) ==
  (last'.op = "push" /\ last'.ref = Prx(i))
  => /\ NotifiedOnce(last', i, "add", IndexKey(LengthOf(props, i)))
     /\ \A f \in SubscribersOf(HubOfProxy(i)) :
          /\ TheChange(last', i, f).value = last'.arg
          /\ "old" \notin DOMAIN TheChange(last', i, f)

C11_PushNotification ==
  [][\A i \in DOMAIN proxies \cap ArrayIds : C11_PushStep(i)]_vars

\* C12: popping from an observed array of length n > 0 through its facade
\* calls every subscriber exactly twice: first for a 'delete' change with
\* key the string of n - 1 and old the removed element, then for a 'set'
\* change of 'length'.
C12_PopStep(i) ==
  (last'.op = "pop" /\ last'.ref = Prx(i) /\ LengthOf(props, i) > 0)
  => \A f \in SubscribersOf(HubOfProxy(i)) :
       LET cs == CallsTo(last', HubOfProxy(i), f)
       IN  /\ Len(cs) = 2
           /\ cs[1].change.type = "delete"
           /\ cs[1].change.key = IndexKey(LengthOf(props, i) - 1)
           /\ cs[1].change.old
                = GetValue(props, i, IndexKey(LengthOf(props, i) - 1))
           /\ cs[2].change.type = "set"
           /\ cs[2].change.key = "length"

C12_PopNotification ==
  [][\A i \in DOMAIN proxies \cap ArrayIds : C12_PopStep(i)]_vars

\* The collection i was observed with patch: true and its methods replaced
IsPatched(i) ==
  /\ i \in DOMAIN entries
  /\ Raw(i) \in DOMAIN observers
  /\ LookupMethod(props, i, "delete") # BuiltIn("delete")

\* Every subscriber of the hub of collection i was called exactly once during
\* the operation recorded in l, with a change of that type
CollectionNotifiedOnce(l, i, type) ==
  \A f \in SubscribersOf(observers[Raw(i)]) :
    LET cs == CallsTo(l, observers[Raw(i)], f)
    IN  Len(cs) = 1 /\ cs[1].change.type = type

\* C13: for a Set observed with patch: true and every element e, primitive
\* or object, add(e) when e is not in the Set calls every subscriber exactly
\* once with the change {type: 'add', value: e, target: the Set}; add(e)
\* again with the e just inserted calls nobody and leaves the Set as it is.
C13_AddStep(i) ==
  /\ (/\ last'.op = "add" /\ last'.ref = Raw(i)
      /\ ~Has(State, i, last'.arg))
     => /\ CollectionNotifiedOnce(last', i, "add")
        /\ \A f \in SubscribersOf(observers[Raw(i)]) :
             LET change == CallsTo(last', observers[Raw(i)], f)[1].change
             IN  change.value = last'.arg /\ change.target = Raw(i)
  /\ (/\ last.op = "add" /\ last.ref = Raw(i) /\ ~last.threw
      /\ last'.op = "add" /\ last'.ref = Raw(i)
      /\ last'.arg = last.arg)
     => /\ last'.calls = <<>>
        /\ entries' = entries

C13_SetInsert ==
  [][\A i \in SetIds : IsPatched(i) => C13_AddStep(i)]_vars

\* C14: for a Map or Set observed with patch: true, clear() on a non-empty
\* collection empties it and calls every subscriber exactly once with a
\* change of type 'clear' whose old holds the contents before the clear;
\* clear() on an empty collection calls nobody.
C14_ClearStep(i) ==
  (last'.op = "clear" /\ last'.ref = Raw(i))
  => IF entries[i] # <<>>
     THEN /\ entries'[i] = <<>>
          /\ CollectionNotifiedOnce(last', i, "clear")
          /\ \A f \in SubscribersOf(observers[Raw(i)]) :
               CallsTo(last', observers[Raw(i)], f)[1].change.old = entries[i]
     ELSE last'.calls = <<>>

C14_ClearSnapshot ==
  [][\A i \in DOMAIN entries : IsPatched(i) => C14_ClearStep(i)]_vars

\* What the built-in method of the operation recorded in l leaves in the
\* collection i, given its contents before
BuiltInResult(l, i) ==
  IF l.op = "add" THEN NativeAdd(State, i, l.arg).entries
  ELSE IF l.op = "remove" THEN NativeDelete(State, i, l.arg).entries
  ELSE NativeClear(State, i).entries

\* C16: observing one collection with patch: true replaces the methods of
\* that instance only: a collection of the same class that was never
\* observed has no own method, and a call of add, delete or clear on it does
\* what the built-in does, calls no subscriber of any hub and touches nothing
\* else.
C16_OtherStep(j) ==
  /\ DOMAIN props[j] = {}
  /\ (last'.op \in {"add", "remove", "clear"} /\ last'.ref = Raw(j))
     => /\ ~last'.threw
        /\ last'.calls = <<>>
        /\ entries' = BuiltInResult(last', j)
        /\ UNCHANGED <<props, observers, hubs, proxies>>

C16_InstanceOnly ==
  [][\A j \in DOMAIN entries :
       Raw(j) \notin DOMAIN observers => C16_OtherStep(j)]_vars

\* An element was added to the Set that was never observed while another
\* Set, with elements of its own, is observed with patch and has a subscriber
C16_Witness ==
  /\ last.op = "add"
  /\ last.ref = Raw(5)
  /\ Raw(5) \notin DOMAIN observers
  /\ entries[5] # <<>>
  /\ IsPatched(4)
  /\ SubscribersOf(observers[Raw(4)]) # {}
  /\ entries[4] # <<>>

\* The subscribers called during the operation recorded in l, by hub h
CalledBy(l, h) ==
  {l.calls[n].subscriber : n \in {m \in 1..Len(l.calls) : l.calls[m].observer = h}}

\* The operation recorded in l is a mutation made through a facade
IsMutation(l) == l.op \in {"assign", "define", "method", "delete"} /\ l.ref.t = "proxy"

\* C15: after hub.unsubscribe(fn), fn is not a subscriber and is called for
\* no later change of that hub, while every function still subscribed is
\* called for each later change (in a pass where no subscriber throws);
\* unsubscribing a function that is not subscribed changes nothing.
C15_UnsubscribeStep(h) ==
  (last'.op = "unsubscribe" /\ last'.ret = h)
  => /\ SubscribersOf(h)' = SubscribersOf(h) \ {last'.arg}
     /\ \A k \in 1..Len(hubs) : k # h => hubs'[k] = hubs[k]
     /\ last'.arg \notin SubscribersOf(h) => hubs' = hubs
     /\ last'.calls = <<>>

C15_DispatchStep(h) ==
  IsMutation(last')
  => /\ CalledBy(last', h) \subseteq SubscribersOf(h)
     /\ (last.op = "unsubscribe" /\ last.ret = h)
          => last.arg \notin CalledBy(last', h)
     /\ (CalledBy(last', h) # {} /\ ~last'.threw)
          => \A g \in SubscribersOf(h) : Len(CallsTo(last', h, g)) = 1

C17_PassStep(i, k) ==
  (/\ ThroughFacade(last', {"assign"}, i, k)
   /\ last'.arg.t = "prim"
   /\ ~hasOwn(props, i, k) \/ (props[i][k].writable /\ props[i][k].value # last'.arg))
  => /\ \A g \in SubscribersOf(HubOfProxy(i)) :
          Len(CallsTo(last', HubOfProxy(i), g)) = 1
     /\ hubs'[HubOfProxy(i)].subscribers = hubs[HubOfProxy(i)].subscribers

C17_SubscriberFailure ==
  [][\A i \in DOMAIN proxies, k \in Keys : C17_PassStep(i, k)]_vars

\* What the operation recorded in l answers when it is made on the object
\* itself, in the state before it
OnTheObject(l) ==
  IF l.op = "define" THEN DefineOwnProperty(State, Raw(l.ref.n), l.key, l.arg)
  ELSE IF l.op = "delete" THEN Delete(State, Raw(l.ref.n), l.key)
  ELSE SetValue(State, Raw(l.ref.n), l.key, l.arg)

\* C18: when the object refuses a definition, an assignment or a deletion
\* made through the facade (as for a slot that is neither configurable nor
\* writable), the facade answers the caller as the object itself would
\* (false, without throwing), the object is unchanged and nobody is called.
C18_RefusedStep ==
  (/\ IsMutation(last')
   /\ last'.op \in {"define", "assign", "delete"}
   /\ ~OnTheObject(last').threw
   /\ OnTheObject(last').ret = FALSE)
  => /\ ~last'.threw
     /\ last'.ret = FALSE
     /\ props' = props
     /\ last'.calls = <<>>

C18_Rejection == [][C18_RefusedStep]_vars

\* C19: for every key, owned, not owned or owned and not configurable, the
\* delete made through the facade answers what the delete on the object
\* itself answers.
C19_DeleteStep ==
  (last'.op = "delete" /\ last'.ref.t = "proxy")
  => /\ ~last'.threw
     /\ last'.ret = OnTheObject(last').ret

C19_DeleteResult == [][C19_DeleteStep]_vars

\* The handle observe returns for the container i: the facade, or the
\* collection itself when it was patched
HandleOf(i) == IF i \in DOMAIN entries THEN Raw(i) ELSE Prx(i)

\* C20: in every change dispatched, target is the handle of the container
\* the mutation occurred on: the facade of a keyed container, the
\* collection itself for a patched collection.
C20_TargetIsHandle ==
  \A n \in 1..Len(last.calls) :
    last.calls[n].change.target = HandleOf(last.calls[n].change.target.n)

\* C21: for a Map observed with patch: true, set(k, v) calls every
\* subscriber exactly once: with {type: 'add', key: k, value: v} and no old
\* when k is not in the Map, with {type: 'set', ..., old: the value k had}
\* when k holds a value other than v; when k holds v it calls nobody and
\* leaves the Map as it is.
C21_SetStep(i) ==
  (last'.op = "set" /\ last'.ref = Raw(i))
  => LET k == Prim(1)
         v == last'.arg
         hub == observers[Raw(i)]
     IN  IF Has(State, i, k) /\ GetEntry(State, i, k) = v
         THEN last'.calls = <<>> /\ entries' = entries
         ELSE /\ CollectionNotifiedOnce(last', i,
                   IF Has(State, i, k) THEN "set" ELSE "add")
              /\ \A f \in SubscribersOf(hub) :
                   LET change == CallsTo(last', hub, f)[1].change
                   IN  /\ change.key = k
                       /\ change.value = v
                       /\ IF Has(State, i, k)
                          THEN change.old = GetEntry(State, i, k)
                          ELSE "old" \notin DOMAIN change

C21_MapSet ==
  [][\A i \in MapIds : IsPatched(i) => C21_SetStep(i)]_vars

\* C22: for every collection observed with patch: true, Set or Map,
\* delete(k) with k present removes it, returns true as the built-in does
\* and calls every subscriber exactly once with a change of type 'delete'
\* whose old is the value removed; with k absent it returns false and calls
\* nobody.
C22_RemoveStep(i) ==
  (last'.op = "remove" /\ last'.ref = Raw(i))
  => LET k == last'.arg
         hub == observers[Raw(i)]
     IN  /\ ~last'.threw
         /\ last'.ret = Has(State, i, k)
         /\ entries' = NativeDelete(State, i, k).entries
         /\ IF Has(State, i, k)
            THEN /\ CollectionNotifiedOnce(last', i, "delete")
                 /\ \A f \in SubscribersOf(hub) :
                      CallsTo(last', hub, f)[1].change.old = GetEntry(State, i, k)
            ELSE last'.calls = <<>>

C22_Remove ==
  [][\A i \in DOMAIN entries : IsPatched(i) => C22_RemoveStep(i)]_vars

\* The registry entries of object i: the keys of __observers__ that are the
\* object or the Proxy over it
EntriesOf(obs, i) == DOMAIN obs \cap {Raw(i), Prx(i)}

\* C23: observe(c, {patch: true}) on a Map or Set c that is not observed yet
\* returns c itself, registers the single entry c -> hub and builds no
\* Proxy; observe on any other object that is not observed yet registers
\* two entries, the object and its Proxy, both mapped to one hub.
C23_ObserveStep ==
  (/\ last'.op = "observe"
   /\ last'.ref.t = "object"
   /\ ~is(observers, last'.ref))
  => LET i == last'.ref.n
     IN  /\ ~last'.threw
         /\ IF i \in DOMAIN entries /\ last'.arg.patch
            THEN /\ last'.ret = Raw(i)
                 /\ EntriesOf(observers', i) = {Raw(i)}
                 /\ i \notin DOMAIN proxies'
            ELSE /\ EntriesOf(observers', i) = {Raw(i), Prx(i)}
                 /\ observers'[Raw(i)] = observers'[Prx(i)]

C23_RegistryEntries == [][C23_ObserveStep]_vars

\* The hubs a change of hub h reaches, from the root of the relay chain down
\* to h
RECURSIVE Ancestry(_, _)
Ancestry(hs, h) ==
  IF hs[h].handler = 0 THEN <<h>> ELSE Append(Ancestry(hs, hs[h].handler), h)

\* The subscribers of the hubs in chain, hub by hub, each with its hub
RECURSIVE Audience(_, _)
Audience(hs, chain) ==
  IF chain = <<>> THEN <<>>
  ELSE [n \in 1..Len(hs[Head(chain)].subscribers) |->
          [observer |-> Head(chain), subscriber |-> hs[Head(chain)].subscribers[n]]]
       \o Audience(hs, Tail(chain))

\* Who was called during the operation recorded in l, in order
Called(l) ==
  [n \in 1..Len(l.calls) |->
     [observer |-> l.calls[n].observer, subscriber |-> l.calls[n].subscriber]]

IsPrefix(a, b) == Len(a) <= Len(b) /\ a = SubSeq(b, 1, Len(a))

\* C24: a change made through the facade of a nested container is delivered
\* along the relay chain from the root down: first the subscribers of the
\* root hub, then those of each hub in between, last those of the hub of
\* the container itself, all with the same change and within the mutating
\* call; all of them are called when no subscriber throws.
C24_RelayStep(i) ==
  (/\ last'.op \in {"assign", "delete"} /\ last'.ref = Prx(i)
   /\ last'.calls # <<>>)
  => LET audience == Audience(hubs, Ancestry(hubs, HubOfProxy(i)))
     IN  /\ IsPrefix(Called(last'), audience)
         /\ \A n \in 1..Len(last'.calls) :
              last'.calls[n].change = last'.calls[1].change
         /\ (\A n \in 1..Len(audience) : audience[n].subscriber \notin Throwing)
              => Called(last') = audience

C24_RelayOrder == [][\A i \in DOMAIN proxies : C24_RelayStep(i)]_vars

\* A change of the object in the Set in the Set has been delivered to the
\* three hubs of the chain
C24_Witness ==
  /\ last.op \in {"assign", "delete"}
  /\ Len(hubs) = 3
  /\ Len(last.calls) = 3
  /\ last.calls[1].observer = observers[Raw(4)]
  /\ last.calls[2].observer = observers[Raw(5)]
  /\ last.calls[3].observer = observers[last.ref]

\* C25: subscribing a function that is already subscribed changes nothing;
\* no dispatch calls a subscriber of a hub more than once, and one
\* unsubscribe leaves the function out of the hub's subscribers.
C25_SubscribeStep ==
  /\ (last'.op = "subscribe"
      /\ last'.arg \in SubscribersOf(last'.ret))
     => hubs' = hubs
  /\ \A h \in 1..Len(hubs) : \A f \in SubscribersOf(h) :
       Len(CallsTo(last', h, f)) <= 1
  /\ last'.op = "unsubscribe"
     => \A n \in 1..Len(hubs'[last'.ret].subscribers) :
          hubs'[last'.ret].subscribers[n] # last'.arg

C25_SubscribeIdempotent == [][C25_SubscribeStep]_vars

\* f has just been subscribed again: it is still before g, which was
\* subscribed after it
C25_Witness ==
  /\ last.op = "subscribe"
  /\ last.arg = "f"
  /\ hubs[last.ret].subscribers = <<"f", "g">>

\* C26: observe(o, options) with deep enabled, on an object o that is not
\* observed yet, returns and leaves every slot that holds an object either
\* as it was, the object unregistered, when options.ignore answers true for
\* it, or holding the registered Proxy over the object otherwise; and
\* Map.prototype.set called through a Proxy over a Map throws.
C26_ObserveStep ==
  /\ (/\ last'.op = "observe"
      /\ last'.ref.t = "object"
      /\ ~is(observers, last'.ref)
      /\ MergeOptions(last'.arg).deep)
     => LET i == last'.ref.n
            options == MergeOptions(last'.arg)
        IN  /\ ~last'.threw
            /\ \A k \in DOMAIN props[i] :
                 LET v == props[i][k].value
                 IN  (isObservable(v) /\ ~is(observers, v))
                     => IF "ignore" \in DOMAIN options /\ Ignored(options.ignore, v)
                        THEN /\ props'[i][k].value = v
                             /\ ~is(observers', v)
                        ELSE /\ props'[i][k].value = Prx(v.n)
                             /\ is(observers', Prx(v.n))
  /\ (last'.op = "set" /\ last'.ref.t = "proxy") => last'.threw

C26_IgnoredSlots == [][C26_ObserveStep]_vars

\* isDescriptorObservable as its documentation states it
Eligibility(descriptor, options) ==
  /\ "get" \notin DOMAIN descriptor /\ "set" \notin DOMAIN descriptor
  /\ "value" \in DOMAIN descriptor /\ isObservable(descriptor.value)
  /\ Truthy(descriptor, "writable") \/ Truthy(descriptor, "configurable")
  /\ \/ options = Undefined
     \/ "ignore" \notin DOMAIN options
     \/ ~Ignored(options.ignore, descriptor.value)
     \/ options.patch /\ isMapOrSet(descriptor.value)

\* C27: isDescriptorObservable(descriptor, options) returns true when the
\* descriptor has no getter and no setter, its value is an object, it is
\* writable or configurable, and no ignore predicate is given, or the
\* predicate does not exclude the value, or patch is enabled and the value
\* is a Map or Set; in every other case it returns false; it never throws.
C27_EligibleStep ==
  last'.op = "isDescriptorObservable"
  => /\ ~last'.threw
     /\ last'.ret = Boolean(Eligibility(last.arg[1], last.arg[2]))

C27_DescriptorEligibility == [][C27_EligibleStep]_vars

\* The slot key of object i holds the registered Proxy over object j
HoldsHandle(p, obs, i, key, j) ==
  /\ key \in DOMAIN p[i]
  /\ p[i][key].value = Prx(j)
  /\ is(obs, Prx(j))

\* C28: observe(target) with deep enabled, on a target that is not observed
\* yet, returns, and then every writable or configurable slot of the target
\* that held an object holds the registered Proxy over that object, whose
\* traps dispatch the changes made through it.
C28_NestedStep ==
  (/\ last'.op = "observe"
   /\ last'.ref.t = "object"
   /\ ~is(observers, last'.ref)
   \* deep was enabled: a call with deep: false does not throw
   /\ \/ last'.threw
      \/ proxies'[last'.ref.n].deep)
  => LET i == last'.ref.n
     IN  \A k \in DOMAIN props[i] :
           LET slot == props[i][k]
           IN  (isObservable(slot.value) /\ (slot.writable \/ slot.configurable))
               => /\ ~last'.threw
                  /\ HoldsHandle(props', observers', i, k, slot.value.n)

C28_NestedHandles == [][C28_NestedStep]_vars

\* C29: assigning an object through a facade observed with deep enabled, to
\* a key that is new or already owned, stores the registered Proxy over the
\* object in the target.
C29_AssignStep ==
  (/\ last'.op = "assign"
   /\ last'.ref.t = "proxy"
   /\ proxies[last'.ref.n].deep
   /\ isObservable(last'.arg)
   /\ ~(hasOwn(props, last'.ref.n, last'.key)
          /\ ~props[last'.ref.n][last'.key].writable))
  => /\ ~last'.threw
     /\ HoldsHandle(props', observers', last'.ref.n, last'.key, last'.arg.n)

C29_AssignedHandle == [][C29_AssignStep]_vars

\* What observing a collection deeply leaves in place of the value v
Reinserted(obs, deep, v) ==
  IF deep /\ isObservable(v) THEN HandleOf(v.n) ELSE v

\* C30: observe(c, {patch: true, deep}) on a Map or Set c that is not
\* observed yet leaves c with as many entries as before, in the same order;
\* with deep enabled every element, key or value that is an object is
\* replaced by its registered handle and every primitive is kept; with
\* deep disabled the entries are the same.
C30_ReinsertStep(i) ==
  (/\ last'.op = "observe"
   /\ last'.ref = Raw(i)
   /\ ~is(observers, Raw(i))
   /\ MergeOptions(last'.arg).patch)
  => LET deep == MergeOptions(last'.arg).deep
     IN  /\ Len(entries'[i]) = Len(entries[i])
         /\ \A n \in 1..Len(entries[i]) :
              /\ entries'[i][n].key = Reinserted(observers', deep, entries[i][n].key)
              /\ entries'[i][n].value = Reinserted(observers', deep, entries[i][n].value)
              /\ (deep /\ isObservable(entries[i][n].value))
                    => is(observers', entries'[i][n].value)

C30_Reinsert == [][\A i \in DOMAIN entries : C30_ReinsertStep(i)]_vars

\* C31: with options.deep = false, observe changes no slot of the target
\* and registers the target and its Proxy only; an object assigned or
\* defined through the facade is stored as given and not registered; and a
\* mutation of another object, nested or not, calls no subscriber of the
\* facade's hub.
C31_ShallowStep ==
  /\ (/\ last'.op = "observe"
      /\ last'.ref.t = "object"
      /\ ~is(observers, last'.ref)
      /\ ~last'.threw
      /\ ~proxies'[last'.ref.n].options.deep)
     => /\ props' = props
        /\ DOMAIN observers' = DOMAIN observers \cup {last'.ref, Prx(last'.ref.n)}
  /\ \A i \in DOMAIN proxies :
       ~proxies[i].options.deep
       => /\ (/\ ThroughFacade(last', {"assign", "define"}, i, last'.key)
              /\ isObservable(ArgValue(last'))
              /\ OnTheObject(last').ret = TRUE)
             => /\ ~last'.threw
                /\ props'[i][last'.key].value = ArgValue(last')
                /\ observers' = observers
          /\ (IsMutation(last') /\ last'.ref.n # i)
             => \A n \in 1..Len(last'.calls) :
                  last'.calls[n].observer # HubOfProxy(i)

C31_ShallowObserve == [][C31_ShallowStep]_vars

\* An object has just been assigned through a facade observed with
\* deep: false and is held as given
C31_Witness ==
  /\ last.op = "assign"
  /\ last.ref.t = "proxy"
  /\ ~last.threw
  /\ ~proxies[last.ref.n].options.deep
  /\ last.arg.t = "object"
  /\ props[last.ref.n][last.key].value = last.arg
  /\ ~is(observers, last.arg)

\* The hub of the value v, a key of __observers__
HubOf(obs, v) == obs[v]

\* C32: observe(o, {patch: true}) with deep enabled, on an object o that is
\* not observed yet, returns and leaves every slot that held a Map or Set
\* holding the same instance, registered and patched, with no Proxy over
\* it and with a hub that relays to the hub of o; and every set or delete
\* on a collection whose hub relays to a parent calls the subscribers of
\* the parent's hub and of its own hub.
C32_PatchedSlotStep ==
  /\ (/\ last'.op = "observe"
      /\ last'.ref.t = "object"
      /\ last'.ref.n \notin DOMAIN entries
      /\ ~is(observers, last'.ref)
      /\ MergeOptions(last'.arg).patch
      /\ MergeOptions(last'.arg).deep)
     => LET i == last'.ref.n
        IN  \A k \in DOMAIN props[i] :
              LET v == props[i][k].value
              IN  (isMapOrSet(v) /\ ~is(observers, v))
                  => /\ ~last'.threw
                     /\ props'[i][k].value = v
                     /\ v.n \notin DOMAIN proxies'
                     /\ is(observers', v)
                     /\ LookupMethod(props', v.n, "delete") # BuiltIn("delete")
                     /\ hubs'[HubOf(observers', v)].handler
                          = HubOf(observers', Raw(i))
  /\ \A j \in DOMAIN entries :
       (/\ IsPatched(j)
        /\ hubs[HubOf(observers, Raw(j))].handler # 0
        /\ last'.op \in {"set", "remove"} /\ last'.ref = Raw(j)
        /\ entries' # entries)
       => \A h \in {HubOf(observers, Raw(j)), hubs[HubOf(observers, Raw(j))].handler} :
            \A f \in SubscribersOf(h) : Len(CallsTo(last', h, f)) = 1

C32_PatchedInPlace == [][C32_PatchedSlotStep]_vars

\* The calls of a step that repeat an earlier call of the same pass: the
\* same hub calling the same subscriber with the same change
RepeatedCalls(l) ==
  {n \in 1..Len(l.calls) :
     \E m \in 1..(n - 1) :
       /\ l.calls[m].observer = l.calls[n].observer
       /\ l.calls[m].subscriber = l.calls[n].subscriber
       /\ l.calls[m].change = l.calls[n].change}

C33_PassStep == IsMutation(last') /\ last'.calls # <<>>

\* C33: within one dispatch call a hub calls each subscriber at most once,
\* whatever the subscribers do during the pass (subscribing, unsubscribing,
\* unsubscribing and re-subscribing), and the dispatch call ends.
C33_OncePerPass ==
  [][C33_PassStep => (~last'.hung /\ RepeatedCalls(last') = {})]_vars

\* The change the defineProperty trap computes for the assignment recorded
\* in l, made on the store p
ComputedChange(p, l) ==
  DefineChange(hasOwn(p, l.ref.n, l.key), l.arg, l.key, l.ref.n,
               IF hasOwn(p, l.ref.n, l.key) THEN p[l.ref.n][l.key].value
               ELSE Undefined)

\* An assignment through a facade whose dispatch passes end
C34_DispatchStep ==
  last'.op = "assign" /\ last'.ref.t = "proxy" /\ ~last'.hung

\* C34: a change descriptor is immutable once dispatched: every subscriber
\* called with the change of an assignment receives the type, key, value, old
\* and target the trap computed, whatever the subscribers called before it
\* did with the descriptor.
C34_SameDescriptor ==
  [][C34_DispatchStep =>
       \A n \in 1..Len(last'.calls) :
         last'.calls[n].change.value = last'.arg
           => last'.calls[n].change = ComputedChange(props, last')]_vars

\* A deep observe of an object that is not observed yet; an observe that
\* throws is a deep one, a shallow observe of an object reads no slot
C35_DeepStep ==
  /\ last'.op = "observe"
  /\ last'.ref.t = "object"
  /\ ~is(observers, last'.ref)
  /\ (last'.threw \/ proxies'[last'.ref.n].deep)

\* C35: a deep observe ends on cyclic graphs and on values reached twice, and
\* leaves exactly one hub for each distinct value reached: every value
\* reached is registered with a hub of its own, and the hubs created are as
\* many as the values reached that had none.
C35_OneHubEach ==
  [][C35_DeepStep =>
       LET reached == {last'.ref.n} \cup Nested(props, last'.ref.n)
       IN  /\ ~last'.threw
           /\ \A j \in reached :
                /\ Raw(j) \in DOMAIN observers'
                /\ hubs'[observers'[Raw(j)]].target = Raw(j)
           /\ Len(hubs') = Len(hubs) +
                Cardinality({j \in reached : Raw(j) \notin DOMAIN observers})]_vars

\* An assignment, through the deep facade of object i, of an object that is
\* not observed yet to a key that accepts it: the trap observes the value
C36_TriggeredStep(i, k) ==
  /\ ThroughFacade(last', {"assign"}, i, k)
  /\ proxies[i].deep
  /\ last'.arg.t = "object"
  /\ ~is(observers, last'.arg)
  /\ (hasOwn(props, i, k) => props[i][k].writable)

\* C36: observe itself calls no subscriber, and when an assignment into an
\* observed parent triggers the observation of the value, the one add/set of
\* that assignment is dispatched and nothing else: every subscriber of the
\* parent's hub is called once with it, and no other call is made.
C36_QuietObserve ==
  [][/\ last'.op = "observe" => last'.calls = <<>>
     /\ \A i \in DOMAIN proxies, k \in Keys :
          C36_TriggeredStep(i, k) =>
            /\ NotifiedOnce(last', i, IF hasOwn(props, i, k) THEN "set" ELSE "add", k)
            /\ Len(last'.calls) = Cardinality(SubscribersOf(HubOfProxy(i)))]_vars

\* The hubs that called a subscriber during the operation recorded in l
CallingHubs(l) == {l.calls[n].observer : n \in 1..Len(l.calls)}

\* The hubs of chain that have a subscriber
Subscribed(hs, chain) ==
  {chain[n] : n \in {m \in 1..Len(chain) : hs[chain[m]].subscribers # <<>>}}

\* C37: the hubs that receive the changes of a container are fixed when it
\* is first observed, its own hub and the chain of parents it was observed
\* under: no step gives a hub another parent, and a change made through the
\* facade of the container is dispatched by the hubs of that chain and by no
\* other, whatever holds the container now.
C37_FixedStep ==
  /\ \A h \in 1..Len(hubs) : hubs'[h].handler = hubs[h].handler
  /\ \A i \in DOMAIN proxies :
       (last'.op \in {"assign", "delete"} /\ last'.ref = Prx(i)
          /\ last'.calls # <<>>)
       => CallingHubs(last') = Subscribed(hubs, Ancestry(hubs, HubOfProxy(i)))

C37_FixedAudience == [][C37_FixedStep]_vars

\* The object, first observed as a value of the Map, is no longer in the Map
\* and is an element of the Set; both collections have a subscriber, and the
\* change made through the facade of the object was dispatched by the hub of
\* the Map and not by the hub of the Set.
C37_Witness ==
  /\ last.op = "assign"
  /\ last.ref = Prx(1)
  /\ {Raw(1), Raw(4), Raw(6)} \subseteq DOMAIN observers
  /\ hubs[observers[Raw(1)]].handler = observers[Raw(6)]
  /\ \A n \in 1..Len(entries[6]) : entries[6][n].value \notin {Raw(1), Prx(1)}
  /\ \E n \in 1..Len(entries[4]) : entries[4][n].key \in {Raw(1), Prx(1)}
  /\ hubs[observers[Raw(4)]].subscribers # <<>>
  /\ observers[Raw(6)] \in CallingHubs(last)
  /\ observers[Raw(4)] \notin CallingHubs(last)

\* The place, among the calls of the operation recorded in l, of the first
\* call made with the change that stores value: the mutations of one
\* operation are announced in the order they are applied, each before the
\* next is made
FirstCall(l, value) ==
  CHOOSE n \in 1..Len(l.calls) :
    /\ l.calls[n].change.value = value
    /\ \A m \in 1..(n - 1) : l.calls[m].change.value # value

\* An assignment through a facade whose dispatch passes end
C38_AssignStep ==
  last'.op = "assign" /\ last'.ref.t = "proxy" /\ ~last'.hung

\* C38: every subscriber of a hub receives the changes in the order in which
\* the mutations were applied, also when a subscriber assigns through the
\* facade while a dispatch pass is in progress: of two calls of one
\* subscriber, the earlier carries the change of the earlier mutation.
C38_MutationOrder ==
  [][C38_AssignStep =>
       \A m, n \in 1..Len(last'.calls) :
         (m < n /\ last'.calls[m].observer = last'.calls[n].observer
                /\ last'.calls[m].subscriber = last'.calls[n].subscriber)
         => FirstCall(last', last'.calls[m].change.value)
              <= FirstCall(last', last'.calls[n].change.value)]_vars

\* The keys of collection i in the contents es: what has(key) answers to
KeysOf(es, i) == {es[i][n].key : n \in 1..Len(es[i])}

\* What get(key) returns on the contents es of Map i
ValuesAt(es, i, key) ==
  {es[i][n].value : n \in {m \in 1..Len(es[i]) : es[i][m].key = key}}

\* The collection i is patched with deep enabled
C39_DeepPatched(i) ==
  /\ IsPatched(i)
  /\ LookupMethod(props, i, IF KindOf(i) = "Set" THEN "add" ELSE "set").options.deep

\* C39: on a collection observed with patch and deep, what is inserted is
\* found again by the collection's own lookups, for primitives and objects:
\* after set.add(e), has(e) is true; after map.set(k, v), has(k) is true and
\* get(k) is v or the handle of v.
C39_InsertStep(i) ==
  /\ (last'.op = "add" /\ last'.ref = Raw(i) /\ ~last'.threw)
     => last'.arg \in KeysOf(entries', i)
  /\ (last'.op = "set" /\ last'.ref = Raw(i) /\ ~last'.threw)
     => /\ Prim(1) \in KeysOf(entries', i)
        /\ ValuesAt(entries', i, Prim(1))
             \subseteq {last'.arg, [last'.arg EXCEPT !.t = "proxy"]}

C39_RoundTrip ==
  [][\A i \in DOMAIN entries : C39_DeepPatched(i) => C39_InsertStep(i)]_vars

\* C40: once a value is observed it stays observed with the same hub: no
\* step removes or replaces a registry entry, so is(v) stays true and get(v)
\* keeps returning the same hub; and the subscribers of a hub change only in
\* a subscribe or unsubscribe on that hub.
C40_Step ==
  /\ \/ observers' = observers
     \/ \A v \in DOMAIN observers :
          /\ is(observers', v)
          /\ observers'[v] = observers[v]
  /\ \/ hubs' = hubs
     \/ \A h \in 1..Len(hubs) :
          /\ Len(hubs') >= h
          /\ hubs'[h].target = hubs[h].target
          /\ hubs'[h].subscribers # hubs[h].subscribers
               => (last'.op \in {"subscribe", "unsubscribe"} /\ last'.ret = h)

C40_StaysObserved == [][C40_Step]_vars

\* A change was dispatched by a hub that still has its subscriber, with an
\* object and its Proxy registered
C40_Witness ==
  /\ last.op \in {"assign", "delete"}
  /\ last.calls # <<>>
  /\ \E h \in 1..Len(hubs) : hubs[h].subscribers # <<>>
  /\ \E i \in DOMAIN proxies : {Raw(i), Prx(i)} \subseteq DOMAIN observers

============================================================================
